---- MODULE Spec2Model ----
(***************************************************************************)
(* A model of Neural_Networks/TwoLayerNN.py: the class TwoLayerNet with   *)
(* its constructor and its three methods loss, train and predict.          *)
(*                                                                         *)
(* Numbers.  The program computes on IEEE doubles.  The model computes on  *)
(* a fixed-point grid: the integer k stands for the real number k / Scale, *)
(* sums and differences are exact, and every product and quotient is       *)
(* rounded to the nearest grid point, as a double operation is rounded to  *)
(* the nearest double.  np.exp and np.log are the grid's roundings of a    *)
(* decreasing exponential and of its inverse.                              *)
(*                                                                         *)
(* Arrays.  A 2-d array is a sequence of rows, each a sequence of numbers; *)
(* indices start at 1 in the model and at 0 in the program, so a class     *)
(* label c of the program is the column c + 1 of the model.                *)
(***************************************************************************)
EXTENDS Integers, Sequences, FiniteSets, TLC

\* ------------------------------------------------------------------ bounds

Scale == 4          \* grid points per unit
MaxEpochs == 2      \* num_epochs ranges over 0 .. MaxEpochs
MaxCalls == 2       \* train is called at most MaxCalls times
MaxIters == 4       \* the calls of train run at most MaxIters iterations in all

\* ------------------------------------------------------------- arithmetic

\* Rounding to the nearest integer of n / d, d > 0 (halves go up).
RoundDiv(n, d) == (2 * n + d) \div (2 * d)

\* a * b and a / b of two grid numbers.
FMul(a, b) == RoundDiv(a * b, Scale)
FDiv(a, b) == RoundDiv(a * Scale, b)

\* np.exp(x) for x <= 0: 1 at 0, decreasing by the factor 1 - 1/Scale per grid
\* step, and underflowing to 0 (at the latest at -1, Scale steps below 0).
RECURSIVE NpExp(_)
NpExp(x) == IF x >= 0 THEN Scale
            ELSE IF x <= 0 - Scale THEN 0
            ELSE (NpExp(x + 1) * (Scale - 1)) \div Scale

\* np.log(p) for 0 <= p <= 1: the inverse of NpExp, the most negative
\* grid number standing for log(0).
RECURSIVE LogFrom(_, _)
LogFrom(p, x) == IF NpExp(x) <= p THEN x ELSE LogFrom(p, x - 1)
NpLog(p) == LogFrom(p, 0)

\* ----------------------------------------------------------------- arrays

\* TLC evaluates a function expression anew at every application.  Array1 and
\* Array2 evaluate each element of a 1-d (2-d) array once and keep the values:
\* Array1(n, f) is <<f[1], ..., f[n]>>, Array2(n, m, f) the n x m array of the
\* f[i][j].
RECURSIVE Array1(_, _)
Array1(n, f) == IF n = 0 THEN <<>> ELSE Append(Array1(n - 1, f), f[n])
RECURSIVE RowsOf(_, _, _)
RowsOf(n, m, f) ==
    IF n = 0 THEN <<>> ELSE Append(RowsOf(n - 1, m, f), Array1(m, f[n]))
Array2(n, m, f) == RowsOf(n, m, f)

Rows(A) == Len(A)
Cols(A) == IF Len(A) = 0 THEN 0 ELSE Len(A[1])
Shape(A) == <<Rows(A), Cols(A)>>

RECURSIVE SumTo(_, _)
SumTo(f, n) == IF n = 0 THEN 0 ELSE f[n] + SumTo(f, n - 1)
\* np.sum of a 1-d sequence.
SeqSum(s) == SumTo(s, Len(s))

\* np.dot(A, B): (n, k) x (k, m) -> (n, m).
Dot(A, B) ==
    Array2(Rows(A), Cols(B), [i \in 1..Rows(A) |-> [j \in 1..Cols(B) |->
        SeqSum(Array1(Cols(A), [k \in 1..Cols(A) |-> FMul(A[i][k], B[k][j])]))]])

\* A.T
Transpose(A) ==
    Array2(Cols(A), Rows(A),
           [j \in 1..Cols(A) |-> [i \in 1..Rows(A) |-> A[i][j]]])

\* A + b for b of shape (1, m): numpy broadcasts b over the rows of A.
AddRow(A, b) ==
    Array2(Rows(A), Cols(A),
           [i \in 1..Rows(A) |-> [j \in 1..Cols(A) |-> A[i][j] + b[1][j]]])

\* A + B and s * A, elementwise.
MatAdd(A, B) ==
    Array2(Rows(A), Cols(A),
           [i \in 1..Rows(A) |-> [j \in 1..Cols(A) |-> A[i][j] + B[i][j]]])
MatScale(s, A) ==
    Array2(Rows(A), Cols(A),
           [i \in 1..Rows(A) |-> [j \in 1..Cols(A) |-> FMul(s, A[i][j])]])

\* The sum along the other axis, np.sum(A, axis=1, keepdims=True): shape (n, 1).
SumAxis1(A) ==
    Array2(Rows(A), 1,
           [i \in 1..Rows(A) |-> [c \in 1..1 |->
               SeqSum(Array1(Cols(A), [j \in 1..Cols(A) |-> A[i][j]]))]])

\* np.sum(A, axis=0, keepdims=True): shape (1, m).
SumAxis0(A) ==
    Array2(1, Cols(A),
           [r \in 1..1 |-> [j \in 1..Cols(A) |->
               SeqSum(Array1(Rows(A), [i \in 1..Rows(A) |-> A[i][j]]))]])

\* np.sum(A * A)
SumSquares(A) ==
    SeqSum(Array1(Rows(A), [i \in 1..Rows(A) |->
        SeqSum(Array1(Cols(A), [j \in 1..Cols(A) |-> FMul(A[i][j], A[i][j])]))]))

\* np.zeros((n, m))
Zeros(n, m) == Array2(n, m, [i \in 1..n |-> [j \in 1..m |-> 0]])

Max2(a, b) == IF a >= b THEN a ELSE b

RECURSIVE MaxTo(_, _)
MaxTo(s, n) == IF n = 1 THEN s[1] ELSE Max2(s[n], MaxTo(s, n - 1))
\* np.max of a non-empty 1-d sequence.
SeqMax(s) == MaxTo(s, Len(s))

ReLU(A) ==
    Array2(Rows(A), Cols(A),
           [i \in 1..Rows(A) |-> [j \in 1..Cols(A) |-> Max2(0, A[i][j])]])

\* An argmax that moves to every element that is not smaller: the last
\* position holding the maximum.
RECURSIVE ArgMaxLastTo(_, _)
ArgMaxLastTo(s, n) ==
    IF n = 1 THEN 1
    ELSE LET p == ArgMaxLastTo(s, n - 1) IN IF s[n] >= s[p] THEN n ELSE p
ArgMaxLast(s) == ArgMaxLastTo(s, Len(s)) - 1

\* np.argmax of a non-empty 1-d sequence: a left-to-right scan that moves
\* only to a strictly larger element.  The result is a 0-based index.
RECURSIVE ArgMaxTo(_, _)
ArgMaxTo(s, n) ==
    IF n = 1 THEN 1
    ELSE LET p == ArgMaxTo(s, n - 1) IN IF s[n] > s[p] THEN n ELSE p
ArgMax(s) == ArgMaxTo(s, Len(s)) - 1

\* X[sample_index, :] and y[sample_index]: fancy indexing by a sequence of
\* (1-based) row numbers.
Take(A, idx) == Array1(Len(idx), [k \in 1..Len(idx) |-> A[idx[k]]])

\* ------------------------------------------------------------ TwoLayerNet

\* np.random.choice(num_train, batch_size, replace=True) as a function of the
\* generator's draw: batch_size row numbers, repeats included.
RandomChoice(draw, num_train, batch_size) ==
    Array1(batch_size, [k \in 1..batch_size |-> ((draw * k) % num_train) + 1])

\* The random draws of __init__, std * np.random.randn(n, m), as a function
\* of the generator's seed: small weights of both signs.
RandN(seed, n, m) ==
    Array2(n, m, [i \in 1..n |-> [j \in 1..m |-> ((seed + 2 * i + j) % 3) - 1]])

\* __init__(input_size, hidden_size, output_size)
InitParams(seed, D, H, C) ==
    [W1 |-> RandN(seed, D, H),
     b1 |-> Zeros(1, H),
     W2 |-> RandN(seed + 1, H, C),
     b2 |-> Zeros(1, C)]

\* The forward pass, shared by loss and predict.
Hidden(p, X) == ReLU(AddRow(Dot(X, p.W1), p.b1))
Scores(p, X) == AddRow(Dot(Hidden(p, X), p.W2), p.b2)

\* The class probabilities of loss: a softmax of the scores, shifted by the
\* row maximum.
Probs(scores) ==
    LET exp_scores ==
            Array2(Rows(scores), Cols(scores),
                   [i \in 1..Rows(scores) |-> [j \in 1..Cols(scores) |->
                NpExp(scores[i][j] - SeqMax(scores[i]))]])
    IN  Array2(Rows(scores), Cols(scores),
               [i \in 1..Rows(scores) |-> [j \in 1..Cols(scores) |->
            FDiv(exp_scores[i][j], SeqSum(exp_scores[i]))]])

\* 0.5 on the grid.
Half == RoundDiv(Scale, 2)

\* loss(X, y, reg) with y given: the loss and the four gradients.
LossAndGrads(p, X, y, reg) ==
    LET N == Rows(X)
        h1 == Hidden(p, X)
        scores == Scores(p, X)
        probs == Probs(scores)
        correct_logprobs == Array1(N, [i \in 1..N |-> 0 - NpLog(probs[i][y[i] + 1])])
        data_loss == RoundDiv(SeqSum(correct_logprobs), N)
        reg_loss == FMul(FMul(Half, reg), SumSquares(p.W1))
                    + FMul(FMul(Half, reg), SumSquares(p.W2))
        dscores ==
            Array2(N, Cols(probs), [i \in 1..N |-> [j \in 1..Cols(probs) |->
                RoundDiv(IF j = y[i] + 1 THEN probs[i][j] - Scale
                         ELSE probs[i][j], N)]])
        dW2 == Dot(Transpose(h1), dscores)
        db2 == SumAxis0(dscores)
        dh1raw == Dot(dscores, Transpose(p.W2))
        dh1 == Array2(N, Cols(h1), [i \in 1..N |-> [j \in 1..Cols(h1) |->
                   IF h1[i][j] <= 0 THEN 0 ELSE dh1raw[i][j]]])
        dW1 == Dot(Transpose(X), dh1)
        db1 == SumAxis0(dh1)
    IN  [loss |-> data_loss + reg_loss,
         grads |-> [W1 |-> MatAdd(dW1, MatScale(reg, p.W1)),
                    b1 |-> db1,
                    W2 |-> MatAdd(dW2, MatScale(reg, p.W2)),
                    b2 |-> db2]]

\* predict(X): the argmax of every row of the scores.
PredictLabels(p, X) ==
    LET scores == Scores(p, X)
    IN  Array1(Rows(X), [i \in 1..Rows(X) |-> ArgMax(scores[i])])

\* (a == b).mean() for two label sequences of the same length.
Accuracy(pred, y) ==
    RoundDiv(Cardinality({i \in 1..Len(y) : pred[i] = y[i]}) * Scale, Len(y))

\* The velocity with the gradient step added instead of subtracted.
VelocityAscent(v, mu, learning_rate, g) ==
    Array2(Rows(g), Cols(g), [i \in 1..Rows(g) |-> [j \in 1..Cols(g) |->
        FMul(mu, v[i][j]) + FMul(learning_rate, g[i][j])]])

\* v = mu * v - learning_rate * g, for one parameter.
Velocity(v, mu, learning_rate, g) ==
    Array2(Rows(g), Cols(g), [i \in 1..Rows(g) |-> [j \in 1..Cols(g) |->
        FMul(mu, v[i][j]) - FMul(learning_rate, g[i][j])]])

\* iterations_per_epoch = max(num_train / batch_size, 1), an integer division.
IterationsPerEpoch(num_train, batch_size) == Max2(num_train \div batch_size, 1)

\* The last value of the loop variable of xrange(1, last): one iteration short.
LastIterationShort(num_epochs, iterations_per_epoch) ==
    num_epochs * iterations_per_epoch - 1

\* The last value of the loop variable: for it in xrange(1, last + 1).
LastIteration(num_epochs, iterations_per_epoch) ==
    num_epochs * iterations_per_epoch

\* The epoch-end condition without the verbose flag.
EpochEndAlways(verbose, it, iterations_per_epoch) ==
    it % iterations_per_epoch = 0

\* The condition of the epoch-end block.
EpochEnd(verbose, it, iterations_per_epoch) ==
    verbose /\ it % iterations_per_epoch = 0

\* ----------------------------------------------------------------- inputs

\* The constructor's (input_size, hidden_size, output_size).
Sizes == {<<1, 2, 3>>}

\* The states of the random generator at construction, and its draws at each
\* minibatch.
Seeds == {1, 2}
Draws == {1, 2}

\* The caller's data: n rows of d features, and a label below c per row.
DataX(n, d) ==
    Array2(n, d, [i \in 1..n |-> [j \in 1..d |-> (((i + j) % 3) - 1) * 2 * Scale]])
DataY(n, c) == Array1(n, [i \in 1..n |-> (i + 1) % c])

\* The hyperparameters a call of train passes, as grid numbers.
LearningRates == {Scale}
Decays == {Half}
Momenta == {0, Half}
MuIncreases == {2 * Scale}
Regs == {1}
\* (num_train, batch_size): a batch larger than the data, a batch dividing
\* the data, and a batch not dividing it.
TrainShapes == {<<1, 2>>, <<2, 1>>, <<3, 2>>}
EvalSizes == {2}            \* the rows of the data given to loss and predict

\* ------------------------------------------------------------------ state

VARIABLES
    ctor,               \* the constructor's arguments
    params,             \* self.params
    pc,                 \* "idle", or "train" inside a call of train
    calls,              \* the calls of train so far
    iters,              \* the iterations of train so far, over all calls
    args,               \* the arguments of the current (or last) call of train
    it,                 \* train's loop variable (0 before the first iteration)
    learning_rate,      \* train's local learning_rate
    mu,                 \* train's local mu
    v,                  \* train's locals v_W1, v_b1, v_W2, v_b2
    loss_history,       \* train's three lists
    train_acc_history,
    val_acc_history,
    X_batch,            \* train's current minibatch
    y_batch,
    ret                 \* what the last call of loss, predict or train
                        \* returned; "none" before any and while train runs

vars == <<ctor, params, pc, calls, iters, args, it, learning_rate, mu, v, loss_history,
          train_acc_history, val_acc_history, X_batch, y_batch, ret>>

locals == <<args, it, learning_rate, mu, v, loss_history, train_acc_history,
            val_acc_history, X_batch, y_batch>>

D == ctor[1]
H == ctor[2]
C == ctor[3]

NoArgs ==
    [X |-> <<>>, y |-> <<>>, X_val |-> <<>>, y_val |-> <<>>,
     learning_rate |-> 0, learning_rate_decay |-> 0, reg |-> 0, mu |-> 0,
     num_epochs |-> 0, mu_increase |-> 0, batch_size |-> 1, verbose |-> FALSE]

\* TwoLayerNet(input_size, hidden_size, output_size): no call has been made.
Init ==
    \E sz \in Sizes, seed \in Seeds :
        /\ ctor = sz
        /\ params = InitParams(seed, sz[1], sz[2], sz[3])
        /\ pc = "idle"
        /\ calls = 0
        /\ iters = 0
        /\ args = NoArgs
        /\ it = 0
        /\ learning_rate = 0
        /\ mu = 0
        /\ v = [W1 |-> <<>>, b1 |-> <<>>, W2 |-> <<>>, b2 |-> <<>>]
        /\ loss_history = <<>>
        /\ train_acc_history = <<>>
        /\ val_acc_history = <<>>
        /\ X_batch = <<>>
        /\ y_batch = <<>>
        /\ ret = [op |-> "none"]

\* The zero velocities of train.  The program starts each at the scalar 0.0,
\* which the first update broadcasts to the gradient's shape.
ZeroVelocity(p) ==
    [W1 |-> Zeros(Rows(p.W1), Cols(p.W1)), b1 |-> Zeros(1, Cols(p.b1)),
     W2 |-> Zeros(Rows(p.W2), Cols(p.W2)), b2 |-> Zeros(1, Cols(p.b2))]

\* An entry of train that keeps the velocities of the call before, as if they
\* were attributes of the model.
TrainEnterStale(a) ==
    /\ args' = a
    /\ it' = 0
    /\ learning_rate' = a.learning_rate
    /\ mu' = a.mu
    /\ v' = IF calls = 0 THEN ZeroVelocity(params) ELSE v
    /\ loss_history' = <<>>
    /\ train_acc_history' = <<>>
    /\ val_acc_history' = <<>>
    /\ X_batch' = <<>>
    /\ y_batch' = <<>>

\* train(...) is entered: the statements before the loop.
TrainEnter(a) ==
    /\ args' = a
    /\ it' = 0
    /\ learning_rate' = a.learning_rate
    /\ mu' = a.mu
    /\ v' = ZeroVelocity(params)
    /\ loss_history' = <<>>
    /\ train_acc_history' = <<>>
    /\ val_acc_history' = <<>>
    /\ X_batch' = <<>>
    /\ y_batch' = <<>>

TrainCall ==
    /\ pc = "idle"
    /\ calls < MaxCalls
    /\ calls' = calls + 1
    /\ \E nb \in TrainShapes, e \in 0..MaxEpochs,
          vb \in BOOLEAN, lr \in LearningRates, dc \in Decays, m \in Momenta,
          mi \in MuIncreases, rg \in Regs :
          LET n == nb[1]
              b == nb[2]
          IN
            /\ iters + LastIteration(e, IterationsPerEpoch(n, b)) <= MaxIters
            /\ TrainEnter([X |-> DataX(n, D), y |-> DataY(n, C),
                        X_val |-> DataX(3, D), y_val |-> DataY(3, C),
                        learning_rate |-> lr, learning_rate_decay |-> dc,
                        reg |-> rg, mu |-> m, num_epochs |-> e,
                        mu_increase |-> mi, batch_size |-> b, verbose |-> vb])
    /\ pc' = "train"
    /\ ret' = [op |-> "none"]
    /\ UNCHANGED <<ctor, params, iters>>

\* The parameter update of one iteration, from the gradients g of one call of
\* loss: each velocity, then its parameter.
UpdatedVelocity(g) ==
    [W1 |-> Velocity(v.W1, mu, learning_rate, g.W1),
     b1 |-> Velocity(v.b1, mu, learning_rate, g.b1),
     W2 |-> Velocity(v.W2, mu, learning_rate, g.W2),
     b2 |-> Velocity(v.b2, mu, learning_rate, g.b2)]

UpdatedParams(p, nv) ==
    [W1 |-> MatAdd(p.W1, nv.W1), b1 |-> MatAdd(p.b1, nv.b1),
     W2 |-> MatAdd(p.W2, nv.W2), b2 |-> MatAdd(p.b2, nv.b2)]

\* The whole training set instead of the minibatch.
TrainAccDataFull(Xb, yb) == [X |-> args.X, y |-> args.y]

\* The data the epoch-end block measures the training accuracy on.
TrainAccData(Xb, yb) == [X |-> Xb, y |-> yb]

\* The body of the loop for one value of it, with the minibatch rows idx.
\* (\E x \in {e} names the value of e: lg is loss's result, nv the new
\* velocities, np the updated parameters.)
TrainBody(idx) ==
    LET ipe == IterationsPerEpoch(Rows(args.X), args.batch_size)
        Xb == Take(args.X, idx)
        yb == Take(args.y, idx)
        td == TrainAccData(Xb, yb)
    IN  \E lg \in {LossAndGrads(params, Xb, yb, args.reg)} :
        \E nv \in {UpdatedVelocity(lg.grads)} :
        \E np \in {UpdatedParams(params, nv)} :
        /\ it' = it + 1
        /\ iters' = iters + 1
        /\ X_batch' = Xb
        /\ y_batch' = yb
        /\ loss_history' = Append(loss_history, lg.loss)
        /\ v' = nv
        /\ params' = np
        /\ IF EpochEnd(args.verbose, it + 1, ipe)
           THEN /\ train_acc_history' =
                       Append(train_acc_history,
                              Accuracy(PredictLabels(np, td.X), td.y))
                /\ val_acc_history' =
                       Append(val_acc_history,
                              Accuracy(PredictLabels(np, args.X_val), args.y_val))
                /\ learning_rate' = FMul(learning_rate, args.learning_rate_decay)
                /\ mu' = FMul(mu, args.mu_increase)
           ELSE UNCHANGED <<train_acc_history, val_acc_history, learning_rate, mu>>

\* A loop that tests its bound after the body: one iteration too many.
LoopContinuesLate(i, last) == i <= last

\* Whether the loop has another iteration after the value it.
LoopContinues(i, last) == i < last

TrainIter ==
    /\ pc = "train"
    /\ LoopContinues(it, LastIteration(args.num_epochs,
                         IterationsPerEpoch(Rows(args.X), args.batch_size)))
    /\ \E draw \in Draws :
          TrainBody(RandomChoice(draw + it, Rows(args.X), args.batch_size))
    /\ UNCHANGED <<ctor, pc, calls, args, ret>>

\* The loop is over: train returns its three lists.
TrainReturn ==
    /\ pc = "train"
    /\ ~LoopContinues(it, LastIteration(args.num_epochs,
                          IterationsPerEpoch(Rows(args.X), args.batch_size)))
    /\ ret' = [op |-> "train",
               loss_history |-> loss_history,
               train_acc_history |-> train_acc_history,
               val_acc_history |-> val_acc_history]
    /\ pc' = "idle"
    /\ UNCHANGED <<ctor, params, calls, iters>>
    /\ UNCHANGED locals

\* A loss whose dW2 aliases W2: dW2 += reg * W2 then writes into the parameter.
ParamsAliased(p, X, y, reg) ==
    [p EXCEPT !.W2 = MatAdd(p.W2, MatScale(reg, p.W2))]

\* What a call of loss leaves in self.params.
ParamsAfterLoss(p, X, y, reg) == p

\* loss(X): the scores alone.
LossScores ==
    /\ pc = "idle"
    /\ \E n \in EvalSizes :
        /\ ret' = [op |-> "scores", X |-> DataX(n, D),
                   val |-> Scores(params, DataX(n, D))]
        /\ params' = params
    /\ UNCHANGED <<ctor, pc, calls, iters>>
    /\ UNCHANGED locals

\* loss(X, y, reg): the loss and the gradients.
Loss ==
    /\ pc = "idle"
    /\ \E n \in EvalSizes, rg \in Regs :
        LET X == DataX(n, D)
            y == DataY(n, C)
        IN  \E lg \in {LossAndGrads(params, X, y, rg)} :
            /\ ret' = [op |-> "loss", X |-> X, y |-> y, reg |-> rg,
                       loss |-> lg.loss, grads |-> lg.grads]
            /\ params' = ParamsAfterLoss(params, X, y, rg)
    /\ UNCHANGED <<ctor, pc, calls, iters>>
    /\ UNCHANGED locals

\* predict(X)
Predict ==
    /\ pc = "idle"
    /\ \E n \in EvalSizes :
        ret' = [op |-> "predict", X |-> DataX(n, D),
                val |-> PredictLabels(params, DataX(n, D))]
    /\ UNCHANGED <<ctor, params, pc, calls, iters>>
    /\ UNCHANGED locals

Next == TrainCall \/ TrainIter \/ TrainReturn \/ LossScores \/ Loss \/ Predict

Spec == Init /\ [][Next]_vars

\* ----------------------------------------------------------------- claims

\* The values the claims are stated with, written out from the call's
\* arguments.
NumTrain == Rows(args.X)
PerEpoch ==
    IF NumTrain \div args.batch_size >= 1 THEN NumTrain \div args.batch_size ELSE 1
TotalIterations == args.num_epochs * PerEpoch
ParamNames == {"W1", "b1", "W2", "b2"}
IsIteration == pc = "train" /\ it' = it + 1
AllZero(A) == \A i \in 1..Rows(A) : \A j \in 1..Cols(A) : A[i][j] = 0

\* C1: a call of train with E epochs, N rows and batch size B runs exactly
\* E * max(N div B, 1) iterations: the loop variable never passes that count,
\* train returns only when it has reached it, every iteration appends its own
\* loss at the end of loss_history, and the returned loss_history has one entry
\* per iteration.
C1_IterationCount ==
    [][/\ pc' = "train" =>
            /\ it' <= TotalIterations'
            /\ Len(loss_history') = it'
       /\ IsIteration =>
            \A lg \in {LossAndGrads(params, X_batch', y_batch', args.reg)} :
                loss_history' = Append(loss_history, lg.loss)
       /\ (pc = "train" /\ pc' = "idle") =>
            /\ it = TotalIterations
            /\ ret'.op = "train"
            /\ ret'.loss_history = loss_history
            /\ Len(ret'.loss_history) = TotalIterations]_vars

\* C1's case: a call with two iterations per epoch has returned a history of
\* more than one loss.
C1_Witness ==
    /\ ret.op = "train"
    /\ PerEpoch = 2
    /\ Len(ret.loss_history) = 2

\* C2: every iteration computes the four gradients g by one call of loss on the
\* minibatch and the parameters as they were before the iteration, and for each
\* parameter P sets v_P' = mu * v_P - learning_rate * g_P and P' = P + v_P';
\* the velocities are zero when the loop starts; and with mu = 0 the update is
\* P' = P - learning_rate * g_P.
C2_MomentumUpdate ==
    [][/\ (pc' = "train" /\ it' = 0) => \A P \in ParamNames : AllZero(v'[P])
       /\ IsIteration =>
            \A g \in {LossAndGrads(params, X_batch', y_batch', args.reg).grads} :
                \A P \in ParamNames :
                    /\ Shape(v'[P]) = Shape(params[P])
                    /\ Shape(params'[P]) = Shape(params[P])
                    /\ \A i \in 1..Rows(params[P]) : \A j \in 1..Cols(params[P]) :
                        /\ v'[P][i][j] =
                              FMul(mu, v[P][i][j]) - FMul(learning_rate, g[P][i][j])
                        /\ params'[P][i][j] = params[P][i][j] + v'[P][i][j]
                        /\ mu = 0 =>
                              params'[P][i][j] =
                                  params[P][i][j] - FMul(learning_rate, g[P][i][j])
      ]_vars

\* C2's case: a later iteration of a call with momentum, whose velocity and
\* update are not zero.
C2_Witness ==
    /\ pc = "train"
    /\ it >= 2
    /\ mu > 0
    /\ ~AllZero(v.W1)
    /\ ~AllZero(v.b2)

\* learning_rate after k decays: k roundings, as the program multiplies.
RECURSIVE Decayed(_, _, _)
Decayed(x, factor, k) == IF k = 0 THEN x ELSE FMul(Decayed(x, factor, k - 1), factor)

C4_DecayEveryEpoch ==
    pc = "train" =>
        learning_rate =
            Decayed(args.learning_rate, args.learning_rate_decay, it \div PerEpoch)

\* scores[i, c] written out for one row x and one (1-based) column c:
\* ReLU(x * W1 + b1) * W2 + b2.
ScoreOf(p, x, c) ==
    SeqSum(Array1(Rows(p.W2), [h \in 1..Rows(p.W2) |->
        FMul(Max2(0, SeqSum(Array1(Len(x), [d \in 1..Len(x) |-> FMul(x[d], p.W1[d][h])]))
                     + p.b1[1][h]),
             p.W2[h][c])]))
    + p.b2[1][c]

\* C5: predict(X) returns one label per row of X, each in [0, C), and the label
\* of a row is the smallest class index whose score is the row's maximum.
C5_PredictArgmax ==
    ret.op = "predict" =>
        /\ Len(ret.val) = Rows(ret.X)
        /\ \A i \in 1..Rows(ret.X) :
            LET c == ret.val[i] IN
            /\ c \in 0..(C - 1)
            /\ \A d \in 1..C :
                  ScoreOf(params, ret.X[i], d) <= ScoreOf(params, ret.X[i], c + 1)
            /\ \A d \in 1..c :
                  ScoreOf(params, ret.X[i], d) < ScoreOf(params, ret.X[i], c + 1)

\* C5's case: predict has answered for several rows, one whose maximal score
\* is shared by two classes, one whose label is not class 0.
C5_Witness ==
    /\ ret.op = "predict"
    /\ Rows(ret.X) > 1
    /\ \E i \in 1..Rows(ret.X) : \E d \in 1..C :
          /\ d # ret.val[i] + 1
          /\ ScoreOf(params, ret.X[i], d) = ScoreOf(params, ret.X[i], ret.val[i] + 1)
    /\ \E i \in 1..Rows(ret.X) : ret.val[i] > 0

C7_PureCalls ==
    [][/\ (pc = "idle" /\ pc' = "idle") => params' = params
       /\ params' # params => IsIteration
       /\ ret'.op = "scores" => ret'.val = Scores(params', ret'.X)
       /\ ret'.op = "predict" => ret'.val = PredictLabels(params', ret'.X)
       /\ ret'.op = "loss" =>
            \A lg \in {LossAndGrads(params', ret'.X, ret'.y, ret'.reg)} :
                ret'.loss = lg.loss /\ ret'.grads = lg.grads]_vars

\* C7's case: loss has returned a loss and gradients on a trained model.
C7_Witness ==
    /\ ret.op = "loss"
    /\ iters > 1
    /\ \E P \in ParamNames : ~AllZero(ret.grads[P])

\* C8: every call of train starts with the four velocities zero, the three
\* histories empty and the learning rate and mu it was passed, whatever an
\* earlier call left; it does not change the parameters on entry; and the
\* histories it returns hold this call's iterations only.
C8_FreshLocals ==
    [][/\ (pc = "idle" /\ pc' = "train") =>
            /\ \A P \in ParamNames : AllZero(v'[P])
            /\ loss_history' = <<>>
            /\ train_acc_history' = <<>>
            /\ val_acc_history' = <<>>
            /\ learning_rate' = args'.learning_rate
            /\ mu' = args'.mu
            /\ it' = 0
            /\ params' = params
       /\ (pc = "train" /\ pc' = "idle") =>
            /\ Len(ret'.loss_history) = TotalIterations
            /\ Len(ret'.train_acc_history) <= args.num_epochs
            /\ Len(ret'.val_acc_history) <= args.num_epochs]_vars

\* C8's case: a second call is running after a first call that ran
\* iterations.
C8_Witness ==
    /\ pc = "train"
    /\ calls = 2
    /\ it >= 1
    /\ iters > it

\* An array of n rows and m columns.
HasShape(A, n, m) == Len(A) = n /\ \A i \in 1..n : Len(A[i]) = m

\* C9: the parameters always have the keys W1, b1, W2, b2 and the shapes of
\* the construction (W1 is D x H, b1 has H entries, W2 is H x C, b2 has C
\* entries), and the gradients loss returns have the same keys and shapes.
C9_Shapes ==
    /\ DOMAIN params = ParamNames
    /\ HasShape(params.W1, D, H)
    /\ HasShape(params.b1, 1, H)
    /\ HasShape(params.W2, H, C)
    /\ HasShape(params.b2, 1, C)
    /\ ret.op = "loss" =>
        /\ DOMAIN ret.grads = ParamNames
        /\ \A P \in ParamNames :
              HasShape(ret.grads[P], Rows(params[P]), Cols(params[P]))

\* C9's case: loss has returned gradients after train has updated the
\* parameters.
C9_Witness ==
    /\ ret.op = "loss"
    /\ calls = 2
    /\ iters >= 2

\* The last element of a non-empty sequence.
Last(s) == s[Len(s)]

\* C10: an iteration computes its loss and gradients on the parameters as they
\* were before it, appends that loss, updates the parameters with the learning
\* rate and mu as they were before it, and only then, at an epoch end with
\* verbose, records the accuracy of the updated parameters on this iteration's
\* minibatch and on the whole validation set; the minibatch is batch_size rows
\* of the training data.
C10_IterationOrder ==
    [][IsIteration =>
        \A lg \in {LossAndGrads(params, X_batch', y_batch', args.reg)} :
        /\ Len(X_batch') = args.batch_size
        /\ Len(y_batch') = args.batch_size
        /\ \A k \in 1..args.batch_size : \E r \in 1..NumTrain :
              X_batch'[k] = args.X[r] /\ y_batch'[k] = args.y[r]
        /\ Last(loss_history') = lg.loss
        /\ \A P \in ParamNames :
              /\ v'[P] = Velocity(v[P], mu, learning_rate, lg.grads[P])
              /\ params'[P] = MatAdd(params[P], v'[P])
        /\ Len(train_acc_history') > Len(train_acc_history) =>
              /\ Last(train_acc_history') =
                    Accuracy(PredictLabels(params', X_batch'), y_batch')
              /\ Last(val_acc_history') =
                    Accuracy(PredictLabels(params', args.X_val), args.y_val)
      ]_vars

\* C10's case: an epoch end whose recorded training accuracy is neither the
\* accuracy on the whole training set nor the validation accuracy.
C10_Witness ==
    /\ pc = "train"
    /\ Len(train_acc_history) >= 1
    /\ it % PerEpoch = 0
    /\ Last(train_acc_history) # Accuracy(PredictLabels(params, args.X), args.y)
    /\ Last(train_acc_history) # Last(val_acc_history)

====
